---- MODULE Spec2Model ----
(***************************************************************************)
(* Model of the watch mode of sprint (src/bin/sprint.rs): the startup of   *)
(* main, the baseline scan `watched`, the path filter `not_ignored`, the   *)
(* two notifier callbacks (supervisor with one command, reporter with no   *)
(* command), the debounce timestamp `ts` and the supervised child; and of  *)
(* the runner of the library (src/lib.rs): Shell::run, run1, core and      *)
(* run1_async with the pipes of the child, as main calls it without -w     *)
(* (with arguments, or reading commands from its stdin).                   *)
(*                                                                         *)
(* A path is the sequence of its components, as std::path compares paths   *)
(* component by component: "/" is the root component, a leading "." is the *)
(* current-directory component.  Time is a discrete clock.                 *)
(***************************************************************************)
EXTENDS Integers, Sequences, FiniteSets, TLC

\* ------------------------------------------------------------------ bounds
MaxTime == 3
MaxDebounce == 1
MaxSpawnDelay == 1
MaxSpawns == 3
MaxCommands == 2
Threads == 2
PipeCap == 1

\* ------------------------------------------------------------- file system
\* std::env::current_dir() of the process
Pwd == <<"/", "w">>

\* directories and files that exist when the program starts (absolute):
\* the root, the current directory, a sub-directory of it and a directory
\* outside it
DirPaths == { <<"/">>, Pwd, <<"/", "w", "d">>, <<"/", "o">> }
FilePaths == { <<"/", "w", "d", "a.txt">>, <<"/", "w", "d", "i.log">>,
               <<"/", "w", "f.txt">>, <<"/", "o", "b.txt">> }

\* file names excluded by the ignore rules in force (a rule such as *.log
\* of an ignore file, which ignore::Walk and Ignore::check both honour); the
\* tree holds no hidden file
IgnoredNames == { "i.log" }

\* the -w options of the command lines the model starts from: a directory
\* (plain and with a leading "./"), the current directory, a file, a path
\* that does not exist, a directory outside the current directory
WatchLists == { << <<"d">> >>, << <<".", "d">> >>, << <<".">> >>,
                << <<"f.txt">> >>,
                << <<"missing">> >>, << <<"d">>, <<"missing">> >>,
                << <<"f.txt">>, <<"/", "o">> >> }

\* absolute paths a notify event can carry
EventPaths == { <<"/", "w", "d">>, <<"/", "w", "d", "a.txt">>,
                <<"/", "w", "d", "n.txt">>, <<"/", "w", "d", "i.log">>,
                <<"/", "w", "f.txt">>, <<"/", "o", "b.txt">> }

Contents == { "x", "y" }

\* ------------------------------------------------------------------- paths
StartsWith(p, base) ==
    /\ Len(base) <= Len(p)
    /\ SubSeq(p, 1, Len(base)) = base

\* Path::strip_prefix: Ok(rest) when base is a component prefix, else Err
StripErr == <<"Err(StripPrefixError)">>
strip_prefix(p, base) ==
    IF StartsWith(p, base) THEN SubSeq(p, Len(base) + 1, Len(p)) ELSE StripErr

\* the file a path names for the operating system: relative paths are
\* resolved against the current directory
Resolve(p) ==
    IF Len(p) > 0 /\ p[1] = "/" THEN p
    ELSE IF Len(p) > 0 /\ p[1] = "." THEN Pwd \o Tail(p)
    ELSE Pwd \o p

is_dir(p) == Resolve(p) \in DirPaths
is_file(p) == Resolve(p) \in FilePaths
Exists(p) == is_dir(p) \/ is_file(p)

\* Ignore::check: the path or one of its ancestors matches an ignore rule
IgnoreCheck(p) == \E i \in 1..Len(p) : p[i] \in IgnoredNames

\* fhc::file_blake3 of a file with the given content: the digest string
Digest(c) == <<"blake3", c>>
hash(p, disk) == Digest(disk[Resolve(p)])

\* ignore::Walk::new(x) ... filter is_file ... strip_prefix("./"):
\* the files below directory x, at any depth, that the ignore rules do not
\* exclude, each named by x joined with the path of the file below x, a
\* leading "./" removed
Walk(x) ==
    { LET q == x \o strip_prefix(f, Resolve(x))
      IN  IF strip_prefix(q, <<".">>) # StripErr THEN strip_prefix(q, <<".">>) ELSE q :
        f \in { g \in FilePaths : /\ Len(g) > Len(Resolve(x))
                                  /\ StartsWith(g, Resolve(x))
                                  /\ ~IgnoreCheck(g) } }

Range(s) == { s[i] : i \in 1..Len(s) }

\* watched(args) = (dirs, hashes)
watchedDirs(args) == SelectSeq(args, is_dir)
watchedKeys(args) ==
    { a \in Range(args) : is_file(a) }
        \cup UNION { Walk(x) : x \in Range(watchedDirs(args)) }
watchedHashes(args, disk) == [ p \in watchedKeys(args) |-> hash(p, disk) ]

\* variant of not_ignored that forgets the ignore rules
not_ignored_rules_dropped(path, ds, hs) ==
    /\ ~(\E i \in 1..Len(ds) : ds[i] = path)
    /\ path \notin DOMAIN hs

\* not_ignored(path, ignored, dirs, hashes)
not_ignored(path, ds, hs) ==
    /\ ~IgnoreCheck(path)
    /\ ~(\E i \in 1..Len(ds) : ds[i] = path)
    /\ path \notin DOMAIN hs


\* ------------------------------------------------------------------- state
VARIABLES
    arguments,   \* cli.arguments: the number of commands on the command line
    watch,       \* cli.watch: the -w paths, in order
    debounce,    \* cli.debounce, in clock ticks
    pc,          \* position of the main thread
    exit_code,   \* exit code of the process, NoCode while it runs
    registered,  \* how many of the watch paths watcher.watch has registered
    dirs,        \* captured by the callback: watched directories
    hashes,      \* captured by the callback: file -> fingerprint
    ts,          \* captured by the callback: the debounce timestamp
    process,     \* captured by the callback: the child in `process`
    spawned,     \* number of children spawned so far
    leaked,      \* number of processes of earlier runs that are still running
    unreaped,    \* number of children dropped without a successful wait
    cb,          \* the notifier thread that runs the callback
    clock,       \* Instant::now()
    fs,          \* content of the files on disk
    last,        \* the callback invocation that has just returned
    last_accept  \* `now` of the latest event the debounce check accepted

vars == << arguments, watch, debounce, pc, exit_code, registered, dirs, hashes,
           ts, process, spawned, leaked, unreaped, cb, clock, fs, last,
           last_accept >>

\* state of Shell::run (src/lib.rs); untouched in watch mode, where main
\* never calls it
VARIABLES
    cli,         \* Shell::run is called by main (lines 110-121 of sprint.rs)
    sync,        \* Shell::sync
    dry_run,     \* Shell::dry_run
    commands,    \* the argument of Shell::run
    job,         \* per command: the thread in run1 and the child it spawned
    finished,    \* indices of the commands in the order run1 returned
    results      \* the Vec that Shell::run returned

rvars == << cli, sync, dry_run, commands, job, finished, results >>

\* watch-mode state that the runner never touches
wvars == << watch, debounce, registered, dirs, hashes, ts, process, spawned,
            leaked, unreaped, cb, clock, fs, last, last_accept >>

NoCode == -1
NoTime == -1
NoPath == << >>
NoEvent == [ kind |-> "none", now |-> 0, ts0 |-> 0, prev |-> NoTime,
             outcome |-> "none", trigger |-> NoPath, gated |-> {},
             modified |-> FALSE, ignored |-> FALSE,
             tracked |-> FALSE, stale |-> FALSE,
             several |-> FALSE, fired |-> 0,
             polled |-> "none", killed |-> FALSE ]

\* files whose content the model rewrites
WritablePaths == { <<"/", "w", "d", "a.txt">> }

Init ==
    /\ arguments \in 0..MaxCommands
    /\ watch \in WatchLists
    /\ debounce \in 0..MaxDebounce
    /\ pc = "main"
    /\ exit_code = NoCode
    /\ registered = 0
    /\ dirs = << >>
    /\ hashes = << >>
    /\ ts = 0
    /\ process = "none"
    /\ spawned = 0
    /\ leaked = 0
    /\ unreaped = 0
    /\ cb = "none"
    /\ clock = 0
    /\ fs = [ f \in FilePaths |-> "x" ]
    /\ last = NoEvent
    /\ last_accept = NoTime
    /\ cli = FALSE
    /\ sync = TRUE
    /\ dry_run = FALSE
    /\ commands = << >>
    /\ job = << >>
    /\ finished = << >>
    /\ results = << >>

\* --------------------------------------------------------- main: startup
\* run(shell, command): spawn the child, then read the clock; d is the time
\* the spawn took
run_ts(now, d) == now + d

\* lines 207-210: more than one command in watch mode
MultiCommandError ==
    /\ pc = "main"
    /\ arguments > 1
    /\ pc' = "exited"
    /\ exit_code' = 1
    /\ UNCHANGED << arguments, watch, debounce, registered, dirs, hashes, ts,
                    process, spawned, leaked, unreaped, cb, clock, fs, last, last_accept >>
    /\ UNCHANGED rvars

\* variant of the initial run without the check for several commands
InitialRun_unchecked ==
    /\ pc = "main"
    /\ arguments >= 1
    /\ \E d \in 0..MaxSpawnDelay :
        /\ clock + d <= MaxTime
        /\ ts' = clock + d
        /\ clock' = clock + d
    /\ process' = "running"
    /\ spawned' = spawned + 1
    /\ pc' = "baseline"
    /\ UNCHANGED << arguments, watch, debounce, exit_code, registered, dirs,
                    hashes, leaked, unreaped, cb, fs, last, last_accept >>
    /\ UNCHANGED rvars

\* variant of the startup that goes on to the baseline scan without having
\* launched the command
InitialRun_deferred ==
    /\ pc = "main"
    /\ arguments = 1
    /\ pc' = "baseline"
    /\ UNCHANGED << arguments, watch, debounce, exit_code, registered, dirs,
                    hashes, ts, process, spawned, leaked, unreaped, cb, clock, fs, last,
                    last_accept >>
    /\ UNCHANGED rvars

\* lines 213-214: run the command in a child process
InitialRun ==
    /\ pc = "main"
    /\ arguments = 1
    /\ \E d \in 0..MaxSpawnDelay :
        /\ clock + d <= MaxTime
        /\ ts' = run_ts(clock, d)
        /\ clock' = clock + d
    /\ process' = "running"
    /\ spawned' = spawned + 1
    /\ pc' = "baseline"
    /\ UNCHANGED << arguments, watch, debounce, exit_code, registered, dirs,
                    hashes, leaked, unreaped, cb, fs, last, last_accept >>
    /\ UNCHANGED rvars

\* lines 217-224: baseline scan and creation of the notifier (supervisor)
Baseline ==
    /\ pc = "baseline"
    /\ dirs' = watchedDirs(watch)
    /\ hashes' = watchedHashes(watch, fs)
    /\ cb' = "ready"
    /\ pc' = "register"
    /\ UNCHANGED << arguments, watch, debounce, exit_code, registered, ts,
                    process, spawned, leaked, unreaped, clock, fs, last, last_accept >>
    /\ UNCHANGED rvars

\* a variant of the reporter setup that launches a child as the supervisor
\* does
ReporterSetup_runs ==
    /\ pc = "main"
    /\ arguments = 0
    /\ dirs' = watchedDirs(watch)
    /\ hashes' = watchedHashes(watch, fs)
    /\ ts' = clock
    /\ cb' = "ready"
    /\ process' = "running"
    /\ spawned' = spawned + 1
    /\ pc' = "register"
    /\ UNCHANGED << arguments, watch, debounce, exit_code, registered,
                    leaked, unreaped, clock, fs, last, last_accept >>
    /\ UNCHANGED rvars

\* lines 126-134: baseline scan, timestamp and notifier (reporter)
ReporterSetup ==
    /\ pc = "main"
    /\ arguments = 0
    /\ dirs' = watchedDirs(watch)
    /\ hashes' = watchedHashes(watch, fs)
    /\ ts' = clock
    /\ cb' = "ready"
    /\ pc' = "register"
    /\ UNCHANGED << arguments, watch, debounce, exit_code, registered,
                    process, spawned, leaked, unreaped, clock, fs, last, last_accept >>
    /\ UNCHANGED rvars

\* lines 196-198 and 305-307: watcher.watch(path)?; a path that does not
\* exist makes main return the error, and the process exits with code 1
RegisterWatch ==
    /\ pc = "register"
    /\ registered < Len(watch)
    /\ IF Exists(watch[registered + 1])
         THEN /\ registered' = registered + 1
              /\ pc' = IF registered + 1 = Len(watch) THEN "idle" ELSE "register"
              /\ UNCHANGED exit_code
         ELSE /\ pc' = "exited"
              /\ exit_code' = 1
              /\ UNCHANGED registered
    /\ last' = NoEvent
    /\ UNCHANGED << arguments, watch, debounce, dirs, hashes, ts, process,
                    spawned, leaked, unreaped, cb, clock, fs, last_accept >>
    /\ UNCHANGED rvars

\* ------------------------------------------------- the notifier callback
Kinds == { "create", "remove", "write", "other" }

\* event.paths: notify reports one path per event, two for a rename
PathLists ==
    { << p >> : p \in EventPaths } \cup { << p, q >> : p, q \in EventPaths }

\* the notifier reports a path only below (or at) a registered watch root
Watched(p) == \E i \in 1..registered : StartsWith(p, Resolve(watch[i]))

\* variants of the debounce check: not strict, always passing
accept_ge(now, t, db) == now - t >= db
accept_always(now, t, db) == TRUE

\* the debounce check `now - ts > debounce` (lines 146, 179, 238, 280)
accept(now, t, db) == now - t > db

\* process.try_wait() on a child in state st; the operating system may
\* fail the poll
try_wait(st, poll) ==
    IF poll = "err" THEN "Err"
    ELSE IF st = "running" THEN "Ok(None)" ELSE "Ok(Some)"

\* a variant of the loop that does not leave the loop after a restart and
\* tests the next path against the same timestamp
RECURSIVE CreateRemoveLoop_no_break(_, _, _, _, _, _, _)
CreateRemoveLoop_no_break(paths, i, now, t, db, ds, hs) ==
    IF i > Len(paths)
      THEN [ outcome |-> "none", trigger |-> NoPath, gated |-> {},
             fired |-> 0 ]
      ELSE LET x == strip_prefix(paths[i], Pwd)
           IN  IF x = StripErr
                 THEN [ outcome |-> "panic", trigger |-> NoPath, gated |-> {},
                        fired |-> 0 ]
               ELSE IF ~not_ignored(x, ds, hs)
                 THEN CreateRemoveLoop_no_break(paths, i + 1, now, t, db, ds, hs)
               ELSE IF accept(now, t, db)
                 THEN LET r == CreateRemoveLoop_no_break(paths, i + 1, now, t, db,
                                                            ds, hs)
                      IN  IF r.outcome = "panic" THEN r
                          ELSE [ outcome |-> "accept", trigger |-> x,
                                 gated |-> r.gated \cup {x},
                                 fired |-> r.fired + 1 ]
               ELSE LET r == CreateRemoveLoop_no_break(paths, i + 1, now, t, db, ds, hs)
                    IN  [ r EXCEPT !.gated = @ \cup {x} ]

\* lines 140-159 and 230-260: the loop over the paths of a create or remove
\* event, each stripped of the current directory and filtered lazily; the
\* loop ends at the first path the debounce check accepts
RECURSIVE CreateRemoveLoop(_, _, _, _, _, _, _)
CreateRemoveLoop(paths, i, now, t, db, ds, hs) ==
    IF i > Len(paths)
      THEN [ outcome |-> "none", trigger |-> NoPath, gated |-> {},
             fired |-> 0 ]
      ELSE LET x == strip_prefix(paths[i], Pwd)
           IN  IF x = StripErr
                 THEN [ outcome |-> "panic", trigger |-> NoPath, gated |-> {},
                        fired |-> 0 ]
               ELSE IF ~not_ignored(x, ds, hs)
                 THEN CreateRemoveLoop(paths, i + 1, now, t, db, ds, hs)
               ELSE IF accept(now, t, db)
                 THEN [ outcome |-> "accept", trigger |-> x, gated |-> {x},
                        fired |-> 1 ]
               ELSE LET r == CreateRemoveLoop(paths, i + 1, now, t, db, ds, hs)
                    IN  [ r EXCEPT !.gated = @ \cup {x} ]

\* lines 164-169 and 265-270: the paths of a write-close event, stripped
\* and filtered, collected before the loop runs
Collect(paths, ds, hs) ==
    LET stripped == [ i \in 1..Len(paths) |-> strip_prefix(paths[i], Pwd) ]
        Keep(x) == not_ignored(x, ds, hs)
    IN  IF \E i \in 1..Len(paths) : stripped[i] = StripErr
          THEN << StripErr >>
          ELSE SelectSeq(stripped, Keep)

\* lines 170-186 and 271-295: the loop over the collected paths of a
\* write-close event.  hs is the mapping so far, nr is not_restarted.  The
\* result holds the mapping when the loop ends (hashes), the mapping at the
\* moment of the restart (atRestart), and the path that passed the check.
RECURSIVE WriteLoop(_, _, _, _, _, _, _, _)
WriteLoop(ps, i, now, t, db, hs, nr, disk) ==
    IF i > Len(ps)
      THEN [ outcome |-> "none", trigger |-> NoPath, gated |-> {},
             hashes |-> hs, atRestart |-> hs, fired |-> 0 ]
      ELSE LET path == ps[i]
           IN  IF path \in DOMAIN hs /\ hash(path, disk) # hs[path]
                 THEN LET hs2 == [ hs EXCEPT ![path] = hash(path, disk) ]
                      IN  IF nr /\ accept(now, t, db)
                            THEN LET r == WriteLoop(ps, i + 1, now, t, db,
                                                    hs2, FALSE, disk)
                                 IN  [ outcome |-> "accept", trigger |-> path,
                                       gated |-> {path}, hashes |-> r.hashes,
                                       atRestart |-> hs2,
                                       fired |-> r.fired + 1 ]
                            ELSE LET r == WriteLoop(ps, i + 1, now, t, db,
                                                    hs2, nr, disk)
                                 IN  IF nr THEN [ r EXCEPT !.gated = @ \cup {path} ]
                                     ELSE r
                 ELSE WriteLoop(ps, i + 1, now, t, db, hs, nr, disk)

\* some path of the event names a file of the baseline
Tracked(paths, hs) ==
    \E i \in 1..Len(paths), k \in DOMAIN hs : Resolve(k) = paths[i]

\* a variant of the match that takes every write-close event on a file of
\* the baseline for a change, without comparing fingerprints
Handle_restart_on_write(kind, paths, now, t, db, ds, hs, disk) ==
    IF kind \in { "create", "remove" }
      THEN LET r == CreateRemoveLoop(paths, 1, now, t, db, ds, hs)
           IN  [ outcome |-> r.outcome, trigger |-> r.trigger,
                 gated |-> r.gated, hashes |-> hs, atRestart |-> hs,
                 fired |-> r.fired ]
    ELSE IF kind = "write" /\ Tracked(paths, hs) /\ accept(now, t, db)
      THEN LET k == CHOOSE k \in DOMAIN hs :
                        \E i \in 1..Len(paths) : Resolve(k) = paths[i]
           IN  [ outcome |-> "accept", trigger |-> k, gated |-> {k},
                 hashes |-> hs, atRestart |-> hs, fired |-> 1 ]
    ELSE [ outcome |-> "none", trigger |-> NoPath, gated |-> {},
           hashes |-> hs, atRestart |-> hs, fired |-> 0 ]

\* a variant of the match that forgets the fingerprint of a removed file
Handle_untracks_removed(kind, paths, now, t, db, ds, hs, disk) ==
    IF kind \in { "create", "remove" }
      THEN LET r == CreateRemoveLoop(paths, 1, now, t, db, ds, hs)
               gone == { k \in DOMAIN hs :
                           /\ kind = "remove"
                           /\ \E i \in 1..Len(paths) : Resolve(k) = paths[i] }
               hs2 == [ k \in DOMAIN hs \ gone |-> hs[k] ]
           IN  [ outcome |-> r.outcome, trigger |-> r.trigger,
                 gated |-> r.gated, hashes |-> hs2, atRestart |-> hs2,
                 fired |-> r.fired ]
    ELSE IF kind = "write"
      THEN LET ps == Collect(paths, ds, hs)
           IN  IF ps = << StripErr >>
                 THEN [ outcome |-> "panic", trigger |-> NoPath, gated |-> {},
                        hashes |-> hs, atRestart |-> hs, fired |-> 0 ]
                 ELSE WriteLoop(ps, 1, now, t, db, hs, TRUE, disk)
    ELSE [ outcome |-> "none", trigger |-> NoPath, gated |-> {},
           hashes |-> hs, atRestart |-> hs, fired |-> 0 ]

\* what one callback invocation decides for an event: the match on
\* event.kind (lines 137-189 and 227-298)
Handle(kind, paths, now, t, db, ds, hs, disk) ==
    IF kind \in { "create", "remove" }
      THEN LET r == CreateRemoveLoop(paths, 1, now, t, db, ds, hs)
           IN  [ outcome |-> r.outcome, trigger |-> r.trigger,
                 gated |-> r.gated, hashes |-> hs, atRestart |-> hs,
                 fired |-> r.fired ]
    ELSE IF kind = "write"
      THEN LET ps == Collect(paths, ds, hs)
           IN  IF ps = << StripErr >>
                 THEN [ outcome |-> "panic", trigger |-> NoPath, gated |-> {},
                        hashes |-> hs, atRestart |-> hs, fired |-> 0 ]
                 ELSE WriteLoop(ps, 1, now, t, db, hs, TRUE, disk)
    ELSE [ outcome |-> "none", trigger |-> NoPath, gated |-> {},
           hashes |-> hs, atRestart |-> hs, fired |-> 0 ]

\* some path of the event names a file of the baseline whose content on
\* disk no longer has the stored fingerprint
Modified(paths, hs, disk) ==
    \E i \in 1..Len(paths), k \in DOMAIN hs :
        /\ Resolve(k) = paths[i]
        /\ hash(k, disk) # hs[k]

\* every path of the event is below the current directory and matched by
\* an ignore rule
Ignored(paths) ==
    \A i \in 1..Len(paths) :
        /\ StartsWith(paths[i], Pwd)
        /\ IgnoreCheck(strip_prefix(paths[i], Pwd))

\* at least two paths of the event are below the current directory and
\* pass the filter
Several(paths, ds, hs) ==
    \E i, j \in 1..Len(paths) :
        /\ i < j
        /\ \A k \in { i, j } :
              /\ strip_prefix(paths[k], Pwd) # StripErr
              /\ not_ignored(strip_prefix(paths[k], Pwd), ds, hs)

\* the record of a callback invocation: the event (kind, time, what its
\* paths were), the state it found (ts0, prev), what it did, and whether
\* the mapping hs1 it leaves behind still differs from the disk (stale)
Record(kind, paths, r, oc, polled, killed, hs1) ==
    [ kind |-> kind, now |-> clock, ts0 |-> ts, prev |-> last_accept,
      outcome |-> oc, trigger |-> r.trigger, gated |-> r.gated,
      modified |-> Modified(paths, hashes, fs),
      ignored |-> Ignored(paths),
      tracked |-> Tracked(paths, hashes),
      stale |-> Modified(paths, hs1, fs),
      several |-> Several(paths, dirs, hashes),
      fired |-> r.fired,
      polled |-> polled, killed |-> killed ]

CallbackReady ==
    /\ pc \in { "register", "idle" }
    /\ cb = "ready"
    /\ last = NoEvent

\* lines 225-304: the callback closure returns to the notifier, which may
\* then deliver the next event
CallbackReturn ==
    /\ pc # "exited"
    /\ last # NoEvent
    /\ last' = NoEvent
    /\ UNCHANGED << arguments, watch, debounce, pc, exit_code, registered, dirs,
                    hashes, ts, process, spawned, leaked, unreaped, cb, clock, fs,
                    last_accept >>
    /\ UNCHANGED rvars

\* a variant of the restart that ignores a failed kill and goes on
Restart_kill_ignored(kind, paths, r) ==
    \E poll \in { "ok", "err" }, kill \in { "ok", "err" }, alive \in BOOLEAN :
        LET polled == try_wait(process, poll)
            dead == polled = "Ok(None)" /\ kill = "ok"
        IN  \E d \in 0..MaxSpawnDelay :
                /\ clock + d <= MaxTime
                /\ spawned < MaxSpawns
                /\ alive => process = "running"
                /\ ( process = "running" /\ ~dead ) => alive
                /\ leaked' = IF alive THEN leaked + 1 ELSE leaked
                /\ unreaped' = IF polled = "Ok(Some)" THEN unreaped
                                ELSE unreaped + 1
                /\ process' = "running"
                /\ spawned' = spawned + 1
                /\ ts' = run_ts(clock, d)
                /\ clock' = clock + d
                /\ hashes' = r.hashes
                /\ last' = Record(kind, paths, r, "restart", polled, dead,
                                  r.hashes)
                /\ UNCHANGED cb

\* lines 239-256 and 281-291: poll the child, kill it if the poll reports
\* it alive, then run the command again.  kill() sends the signal and
\* returns, nothing waits for the old child, and its handle is dropped when
\* `process` is assigned: the old child (or, below a shell, the command it
\* started) may still be running when the new child is spawned (alive), and
\* a child that the poll did not reap stays unreaped
Restart(kind, paths, r) ==
    \E poll \in { "ok", "err" }, kill \in { "ok", "err" }, alive \in BOOLEAN :
        LET polled == try_wait(process, poll)
        IN  IF polled = "Ok(None)" /\ kill = "err"
              THEN \* process.kill().expect("kill process") panics
                   /\ cb' = "panicked"
                   /\ hashes' = r.atRestart
                   /\ last' = Record(kind, paths, r, "kill failed", polled, FALSE,
                                     r.atRestart)
                   /\ UNCHANGED << ts, process, spawned, leaked, unreaped, clock >>
              ELSE \E d \in 0..MaxSpawnDelay :
                   /\ clock + d <= MaxTime
                   /\ spawned < MaxSpawns
                   /\ alive => process = "running"
                   /\ ( process = "running" /\ polled = "Err" ) => alive
                   /\ leaked' = IF alive THEN leaked + 1 ELSE leaked
                   /\ unreaped' = IF polled = "Ok(Some)" THEN unreaped
                                   ELSE unreaped + 1
                   /\ process' = "running"
                   /\ spawned' = spawned + 1
                   /\ ts' = run_ts(clock, d)
                   /\ clock' = clock + d
                   /\ hashes' = r.hashes
                   /\ last' = Record(kind, paths, r, "restart", polled,
                                     polled = "Ok(None)", r.hashes)
                   /\ UNCHANGED cb

\* lines 224-299: the callback of the supervisor on Ok(event)
SupervisorEvent ==
    /\ CallbackReady
    /\ arguments = 1
    /\ \E kind \in Kinds, paths \in PathLists :
        /\ \A i \in 1..Len(paths) : Watched(paths[i])
        /\ LET r == Handle(kind, paths, clock, ts, debounce, dirs, hashes, fs)
           IN  CASE r.outcome = "none" ->
                      /\ hashes' = r.hashes
                      /\ last' = Record(kind, paths, r, "none", "none", FALSE,
                                       r.hashes)
                      /\ UNCHANGED << ts, process, spawned, leaked, unreaped, cb, clock,
                                      last_accept >>
                 [] r.outcome = "panic" ->
                      /\ cb' = "panicked"
                      /\ last' = Record(kind, paths, r, "panic", "none", FALSE,
                                       hashes)
                      /\ UNCHANGED << hashes, ts, process, spawned, leaked, unreaped,
                                      clock, last_accept >>
                 [] r.outcome = "accept" ->
                      /\ Restart(kind, paths, r)
                      /\ last_accept' = clock
    /\ UNCHANGED << arguments, watch, debounce, pc, exit_code, registered, dirs, fs >>
    /\ UNCHANGED rvars

\* lines 134-190: the callback of the reporter on Ok(event)
ReporterEvent ==
    /\ CallbackReady
    /\ arguments = 0
    /\ \E kind \in Kinds, paths \in PathLists :
        /\ \A i \in 1..Len(paths) : Watched(paths[i])
        /\ LET r == Handle(kind, paths, clock, ts, debounce, dirs, hashes, fs)
           IN  CASE r.outcome = "none" ->
                      /\ hashes' = r.hashes
                      /\ last' = Record(kind, paths, r, "none", "none", FALSE,
                                       r.hashes)
                      /\ UNCHANGED << ts, cb, last_accept >>
                 [] r.outcome = "panic" ->
                      /\ cb' = "panicked"
                      /\ last' = Record(kind, paths, r, "panic", "none", FALSE,
                                       hashes)
                      /\ UNCHANGED << hashes, ts, last_accept >>
                 [] r.outcome = "accept" ->
                      \* println!, ts = now
                      /\ ts' = clock
                      /\ hashes' = r.hashes
                      /\ last' = Record(kind, paths, r, "report", "none", FALSE,
                                       r.hashes)
                      /\ last_accept' = clock
                      /\ UNCHANGED cb
    /\ UNCHANGED << arguments, watch, debounce, pc, exit_code, registered, dirs,
                    process, spawned, leaked, unreaped, clock, fs >>
    /\ UNCHANGED rvars

\* a variant of the error branch that drops the error and goes on
NotifyError_goes_on ==
    /\ CallbackReady
    /\ last' = [ NoEvent EXCEPT !.kind = "error" ]
    /\ UNCHANGED << arguments, watch, debounce, pc, exit_code, registered, dirs,
                    hashes, ts, process, spawned, leaked, unreaped, cb, clock, fs,
                    last_accept >>
    /\ UNCHANGED rvars

\* lines 191-193 and 300-302: the notifier delivers an error
NotifyError ==
    /\ CallbackReady
    /\ pc' = "exited"
    /\ exit_code' = 1
    /\ last' = [ NoEvent EXCEPT !.kind = "error" ]
    /\ UNCHANGED << arguments, watch, debounce, registered, dirs, hashes, ts,
                    process, spawned, leaked, unreaped, cb, clock, fs, last_accept >>
    /\ UNCHANGED rvars

\* ------------------------------------------------------------ environment
\* a variant of the idle loop that refreshes the debounce timestamp
Elapse_touch ==
    /\ pc # "exited"
    /\ clock < MaxTime
    /\ clock' = clock + 1
    /\ ts' = IF pc = "idle" THEN clock + 1 ELSE ts
    /\ last' = NoEvent
    /\ UNCHANGED << arguments, watch, debounce, pc, exit_code, registered, dirs,
                    hashes, process, spawned, leaked, unreaped, cb, fs, last_accept >>
    /\ UNCHANGED rvars

\* lines 200-202 and 309-311: time passes while the process runs
Elapse ==
    /\ pc # "exited"
    /\ clock < MaxTime
    /\ clock' = clock + 1
    /\ last' = NoEvent
    /\ UNCHANGED << arguments, watch, debounce, pc, exit_code, registered, dirs,
                    hashes, ts, process, spawned, leaked, unreaped, cb, fs, last_accept >>
    /\ UNCHANGED rvars

\* a process ends: the child in `process` on its own, or a process of an
\* earlier run (on its own, or because the signal has taken effect)
ChildExit ==
    /\ \/ /\ process = "running"
          /\ process' = "exited"
          /\ UNCHANGED leaked
       \/ /\ leaked > 0
          /\ leaked' = leaked - 1
          /\ UNCHANGED process
    /\ UNCHANGED unreaped
    /\ last' = NoEvent
    /\ UNCHANGED << arguments, watch, debounce, pc, exit_code, registered, dirs,
                    hashes, ts, spawned, cb, clock, fs, last_accept >>
    /\ UNCHANGED rvars

\* some program overwrites a file
WriteFile ==
    /\ pc # "exited"
    /\ \E f \in WritablePaths, c \in Contents :
        /\ fs[f] # c
        /\ fs' = [ fs EXCEPT ![f] = c ]
    /\ last' = NoEvent
    /\ UNCHANGED << arguments, watch, debounce, pc, exit_code, registered, dirs,
                    hashes, ts, process, spawned, leaked, unreaped, cb, clock, last_accept >>
    /\ UNCHANGED rvars

Next ==
    \/ MultiCommandError
    \/ InitialRun
    \/ Baseline
    \/ ReporterSetup
    \/ RegisterWatch
    \/ SupervisorEvent
    \/ ReporterEvent
    \/ NotifyError
    \/ CallbackReturn
    \/ Elapse
    \/ ChildExit
    \/ WriteFile

Spec == Init /\ [][Next]_vars

\* ===================================================== src/lib.rs: runner
\* Pipe (lib.rs 119-125); a string is modelled by its length in bytes
NoString == -1
PipeNull == [ pipe |-> "Null", s |-> NoString ]
PipeStdout == [ pipe |-> "Stdout", s |-> NoString ]
PipeStderr == [ pipe |-> "Stderr", s |-> NoString ]
PipeString(n) == [ pipe |-> "String", s |-> n ]

\* what the program named by a command text does when it runs: the bytes
\* it writes to stdout and to stderr, whether it reads its stdin (to the
\* end), and how it ends: with an exit status, or killed by a signal
\* (NoCode).  warn is `echo err >&2`, seqerr is `seq 1 100000 >&2`
Programs ==
    [ echo   |-> [ out |-> 1, err |-> 0, reads |-> FALSE, status |-> 0 ],
      exit2  |-> [ out |-> 0, err |-> 0, reads |-> FALSE, status |-> 2 ],
      kill   |-> [ out |-> 0, err |-> 0, reads |-> FALSE, status |-> NoCode ],
      wc     |-> [ out |-> 1, err |-> 0, reads |-> TRUE, status |-> 0 ],
      sleep  |-> [ out |-> 0, err |-> 0, reads |-> FALSE, status |-> 0 ],
      seq    |-> [ out |-> PipeCap + 1, err |-> 0, reads |-> FALSE,
                   status |-> 0 ],
      warn   |-> [ out |-> 0, err |-> 1, reads |-> FALSE, status |-> 0 ],
      seqerr |-> [ out |-> 0, err |-> PipeCap + 1, reads |-> FALSE,
                   status |-> 0 ] ]

\* Command::new / Command::default (lib.rs 576-605)
CommandNew(text) ==
    [ command |-> text, stdin |-> PipeNull, codes |-> { 0 },
      stdout |-> PipeStdout, stderr |-> PipeStderr, code |-> NoCode ]

\* the commands main builds from the command line (sprint.rs 113-116) or
\* from a line of its stdin (sprint.rs 95)
CliCommands == { CommandNew("echo"), CommandNew("exit2"), CommandNew("kill"),
                 CommandNew("wc") }

\* commands a caller of the library builds: other accepted codes, a stdin
\* payload larger than the pipe, captured stdout, captured stderr
LibCommands ==
    CliCommands \cup
    { [ CommandNew("exit2") EXCEPT !.codes = { 0, 2 } ],
      [ CommandNew("wc") EXCEPT !.stdin = PipeString(PipeCap + 1),
                                !.stdout = PipeString(NoString) ],
      [ CommandNew("sleep") EXCEPT !.stdin = PipeString(PipeCap + 1) ],
      [ CommandNew("seq") EXCEPT !.stdout = PipeString(NoString) ],
      [ CommandNew("warn") EXCEPT !.stderr = PipeString(NoString) ] }

\* the slices of at most n elements of S, the empty one included
SeqsUpTo(S, n) == { << >> } \cup UNION { [ 1..k -> S ] : k \in 1..n }

\* the thread that runs command i and the child it spawned: where the
\* thread is, the state of the child, which of its streams are pipes,
\* whether the stdin it inherited is still open, the bytes of the payload
\* left to write and those in the stdin pipe, the bytes the child has yet
\* to write to stdout and stderr, those in each pipe and those read so far
NoJob == [ phase |-> "todo", child |-> "none", piped |-> {},
           in_open |-> FALSE, left |-> 0, inbuf |-> 0,
           toout |-> 0, outbuf |-> 0, got |-> NoString,
           toerr |-> 0, errbuf |-> 0, goterr |-> NoString,
           code |-> NoCode ]

InitRun ==
    /\ cli \in BOOLEAN
    /\ sync \in IF cli THEN { TRUE } ELSE BOOLEAN
    /\ dry_run \in IF cli THEN { FALSE } ELSE BOOLEAN
    /\ commands \in SeqsUpTo(IF cli THEN CliCommands ELSE LibCommands,
                             MaxCommands)
    /\ job = [ i \in 1..Len(commands) |-> NoJob ]
    /\ finished = << >>
    /\ results = << >>
    \* main was given the commands as arguments, or it was given no
    \* argument and reads them from its stdin, line by line
    /\ arguments \in IF cli THEN { 0, Len(commands) } ELSE { 0 }
    /\ pc = IF cli THEN "main" ELSE "run"
    /\ exit_code = NoCode
    /\ watch = << >>
    /\ debounce = 0
    /\ registered = 0
    /\ dirs = << >>
    /\ hashes = << >>
    /\ ts = 0
    /\ process = "none"
    /\ spawned = 0
    /\ leaked = 0
    /\ unreaped = 0
    /\ cb = "none"
    /\ clock = 0
    /\ fs = [ f \in FilePaths |-> "x" ]
    /\ last = NoEvent
    /\ last_accept = NoTime

\* sprint.rs 110-118: without -w and with arguments main calls shell.run
MainRun ==
    /\ pc = "main"
    /\ arguments > 0
    /\ watch = << >>
    /\ pc' = "run"
    /\ UNCHANGED << arguments, exit_code, wvars, rvars >>

\* lib.rs 457-467: which streams of the child are pipes
StdinPiped(c) == c.stdin.pipe = "String"

\* a variant that pipes stdout only to capture it
StdoutPiped_capture_only(c) == c.stdout.pipe = "String"

StdoutPiped(c) == c.stdout.pipe \in { "String", "Null" }
StderrPiped(c) == c.stderr.pipe \in { "String", "Null" }

\* the streams for which run1_async asks Stdio::piped(); the others keep
\* the default of std::process::Command and inherit the parent's stream
Piped(c) ==
    { x \in { "stdin" } : StdinPiped(c) }
    \cup { x \in { "stdout" } : StdoutPiped(c) }
    \cup { x \in { "stderr" } : StderrPiped(c) }

\* a variant of the error test that takes every non-zero code for an error
is_error_nonzero(code, codes, dry) ==
    IF code # NoCode THEN code # 0 ELSE ~dry

\* lib.rs 373-386: the result of a command ends a sequential run
is_error(code, codes, dry) ==
    IF code # NoCode THEN code \notin codes ELSE ~dry

\* a variant of wait that returns the status without waiting for the exit
wait_poll(st, w, status) ==
    IF w = "err" THEN [ returned |-> TRUE, code |-> NoCode ]
    ELSE [ returned |-> TRUE, code |-> status ]

\* lib.rs 496-499: child.wait() returns once the child has exited, with
\* its status or, when the call fails, with an error (code None); it never
\* returns while the child runs
wait(st, w, status) ==
    [ returned |-> st = "exited",
      code |-> IF w = "err" THEN NoCode ELSE status ]

Min(a, b) == IF a < b THEN a ELSE b

\* threads that are inside run1
Busy == { i \in 1..Len(commands) : job[i].phase \notin { "todo", "done" } }

\* lib.rs 491-494 and 451-480: core calls run1_async, which spawns the
\* child of command i.  A stream that is not piped keeps the default of
\* std::process::Command and is inherited: the stdin of the caller may be
\* at its end or still open (open matters to a child that reads it)
Spawn(i) ==
    LET c == commands[i]
        some == c.stdin.pipe = "String" /\ c.stdin.s # NoString
    IN  \E open \in BOOLEAN :
            /\ open => ( ~StdinPiped(c) /\ Programs[c.command].reads )
            /\ job' = [ job EXCEPT
                          ![i].phase = IF some THEN "stdin" ELSE "wait",
                          ![i].child = "running",
                          ![i].piped = Piped(c),
                          ![i].in_open = open,
                          ![i].left = IF some THEN c.stdin.s ELSE 0,
                          ![i].toout = Programs[c.command].out,
                          ![i].toerr = Programs[c.command].err ]

\* lib.rs 363-368 (the loop reaches command i) and 400-403 (a thread of the
\* pool takes command i); run1 (409-431), which returns a copy of the
\* command in a dry run and calls core otherwise
Start(i) ==
    /\ pc = "run"
    /\ job[i].phase = "todo"
    /\ IF sync
         THEN i > 1 => /\ job[i - 1].phase = "done"
                       /\ ~is_error(job[i - 1].code, commands[i - 1].codes,
                                    dry_run)
         ELSE Cardinality(Busy) < Threads
    /\ IF dry_run
         THEN /\ job' = [ job EXCEPT ![i].phase = "done",
                                     ![i].code = commands[i].code ]
              /\ finished' = Append(finished, i)
         ELSE /\ Spawn(i)
              /\ UNCHANGED finished
    /\ UNCHANGED << cli, sync, dry_run, commands, results >>
    /\ UNCHANGED << arguments, pc, exit_code, wvars >>

\* lib.rs 482-485: stdin.write_all(s).unwrap(), then stdin is dropped.  A
\* write moves what fits into the pipe and blocks while the pipe is full;
\* a write to the pipe of a child that is gone fails, and unwrap panics
WriteStdin(i) ==
    /\ job[i].phase = "stdin"
    /\ IF job[i].left > 0 /\ job[i].child = "exited"
         THEN job' = [ job EXCEPT ![i].phase = "panicked" ]
         ELSE LET k == Min(job[i].left, PipeCap - job[i].inbuf)
              IN  /\ job[i].left > 0 => k > 0
                  /\ job' = [ job EXCEPT
                                ![i].left = @ - k,
                                ![i].inbuf = @ + k,
                                ![i].phase = IF job[i].left - k = 0
                                               THEN "wait" ELSE "stdin" ]
    /\ UNCHANGED << cli, sync, dry_run, commands, finished, results >>
    /\ UNCHANGED << arguments, pc, exit_code, wvars >>

\* the child reads what is in its stdin pipe
ChildRead(i) ==
    /\ job[i].child = "running"
    /\ Programs[commands[i].command].reads
    /\ job[i].inbuf > 0
    /\ job' = [ job EXCEPT ![i].inbuf = 0 ]
    /\ UNCHANGED << cli, sync, dry_run, commands, finished, results >>
    /\ UNCHANGED << arguments, pc, exit_code, wvars >>

\* the stdin of the caller, which the child inherited (lib.rs 457-459 do
\* not apply), reaches its end
CallerStdinEnd(i) ==
    /\ job[i].child = "running"
    /\ job[i].in_open
    /\ job' = [ job EXCEPT ![i].in_open = FALSE ]
    /\ UNCHANGED << cli, sync, dry_run, commands, finished, results >>
    /\ UNCHANGED << arguments, pc, exit_code, wvars >>

\* the child writes to its stdout: into the pipe while there is room
\* (lib.rs 461-463), or to the inherited stream
ChildWrite(i) ==
    /\ job[i].child = "running"
    /\ job[i].toout > 0
    /\ IF StdoutPiped(commands[i])
         THEN LET k == Min(job[i].toout, PipeCap - job[i].outbuf)
              IN  /\ k > 0
                  /\ job' = [ job EXCEPT ![i].toout = @ - k,
                                         ![i].outbuf = @ + k ]
         ELSE job' = [ job EXCEPT ![i].toout = 0 ]
    /\ UNCHANGED << cli, sync, dry_run, commands, finished, results >>
    /\ UNCHANGED << arguments, pc, exit_code, wvars >>

\* the child writes to its stderr: into the pipe while there is room
\* (lib.rs 465-467), or to the inherited stream
ChildWriteErr(i) ==
    /\ job[i].child = "running"
    /\ job[i].toerr > 0
    /\ IF StderrPiped(commands[i])
         THEN LET k == Min(job[i].toerr, PipeCap - job[i].errbuf)
              IN  /\ k > 0
                  /\ job' = [ job EXCEPT ![i].toerr = @ - k,
                                         ![i].errbuf = @ + k ]
         ELSE job' = [ job EXCEPT ![i].toerr = 0 ]
    /\ UNCHANGED << cli, sync, dry_run, commands, finished, results >>
    /\ UNCHANGED << arguments, pc, exit_code, wvars >>

\* the child has seen the end of its stdin: of its pipe, once the parent
\* has closed its end (dropped after the write, or closed by wait) and the
\* pipe is empty; of the stream it inherited, once that stream has ended
StdinAtEnd(i) ==
    IF StdinPiped(commands[i])
      THEN job[i].phase \in { "wait", "read", "readerr", "done" }
           /\ job[i].inbuf = 0
      ELSE ~job[i].in_open

\* the child ends once it has written its output and, if it reads its
\* stdin, has read it to the end
ChildEnd(i) ==
    /\ job[i].child = "running"
    /\ job[i].toout = 0
    /\ job[i].toerr = 0
    /\ Programs[commands[i].command].reads => StdinAtEnd(i)
    /\ job' = [ job EXCEPT ![i].child = "exited" ]
    /\ UNCHANGED << cli, sync, dry_run, commands, finished, results >>
    /\ UNCHANGED << arguments, pc, exit_code, wvars >>

\* lib.rs 501 and 507: the streams core reads after the wait
CaptureOut(c) == c.stdout.pipe = "String"
CaptureErr(c) == c.stderr.pipe = "String"

\* lib.rs 496-499: r.code from child.wait(); then core reads the captured
\* stdout (501-505), then the captured stderr (507-511), and returns (519)
Wait(i) ==
    /\ job[i].phase = "wait"
    /\ \E w \in { "ok", "err" } :
         LET r == wait(job[i].child, w, Programs[commands[i].command].status)
             c == commands[i]
         IN  /\ r.returned
             /\ job' = [ job EXCEPT
                           ![i].code = r.code,
                           ![i].phase = IF CaptureOut(c) THEN "read"
                                        ELSE IF CaptureErr(c) THEN "readerr"
                                        ELSE "done",
                           ![i].got = IF CaptureOut(c) THEN 0 ELSE NoString,
                           ![i].goterr = IF ~CaptureOut(c) /\ CaptureErr(c)
                                           THEN 0 ELSE NoString ]
             /\ finished' = IF CaptureOut(c) \/ CaptureErr(c) THEN finished
                            ELSE Append(finished, i)
    /\ UNCHANGED << cli, sync, dry_run, commands, results >>
    /\ UNCHANGED << arguments, pc, exit_code, wvars >>

\* lib.rs 501-505: read_to_string takes what is in the stdout pipe and ends
\* when the child has closed its end
Read(i) ==
    /\ job[i].phase = "read"
    /\ IF job[i].outbuf > 0
         THEN /\ job' = [ job EXCEPT ![i].got = @ + job[i].outbuf,
                                     ![i].outbuf = 0 ]
              /\ UNCHANGED finished
         ELSE /\ job[i].child = "exited"
              /\ IF CaptureErr(commands[i])
                   THEN /\ job' = [ job EXCEPT ![i].phase = "readerr",
                                               ![i].goterr = 0 ]
                        /\ UNCHANGED finished
                   ELSE /\ job' = [ job EXCEPT ![i].phase = "done" ]
                        /\ finished' = Append(finished, i)
    /\ UNCHANGED << cli, sync, dry_run, commands, results >>
    /\ UNCHANGED << arguments, pc, exit_code, wvars >>

\* lib.rs 507-511: read_to_string takes what is in the stderr pipe and ends
\* when the child has closed its end
ReadErr(i) ==
    /\ job[i].phase = "readerr"
    /\ IF job[i].errbuf > 0
         THEN /\ job' = [ job EXCEPT ![i].goterr = @ + job[i].errbuf,
                                     ![i].errbuf = 0 ]
              /\ UNCHANGED finished
         ELSE /\ job[i].child = "exited"
              /\ job' = [ job EXCEPT ![i].phase = "done" ]
              /\ finished' = Append(finished, i)
    /\ UNCHANGED << cli, sync, dry_run, commands, results >>
    /\ UNCHANGED << arguments, pc, exit_code, wvars >>

\* lib.rs 494, 496, 504, 510, 519: the Command that core returns for
\* command i
Result(i) ==
    [ commands[i] EXCEPT
        !.code = job[i].code,
        !.stdout = IF job[i].got = NoString THEN @ ELSE PipeString(job[i].got),
        !.stderr = IF job[i].goterr = NoString THEN @
                   ELSE PipeString(job[i].goterr) ]

\* a variant of the collection that takes the results as the threads
\* deliver them
collect_as_finished(order) == [ k \in 1..Len(order) |-> Result(order[k]) ]

\* lib.rs 400-405: collect() of the indexed parallel iterator puts the
\* result of command i at position i, whatever the order of completion
par_collect(order) == [ i \in 1..Len(order) |-> Result(i) ]

\* the commands the sequential loop has run when it ends (lib.rs 363-389)
Ran ==
    { k \in 1..Len(commands) :
        /\ \A i \in 1..k : job[i].phase = "done"
        /\ \/ k = Len(commands)
           \/ is_error(job[k].code, commands[k].codes, dry_run) }

\* lib.rs 391-399 and 400-405: Shell::run returns; the sequential loop
\* returns what it pushed, nothing when the slice is empty
Return ==
    /\ pc = "run"
    /\ IF sync
         THEN IF commands = << >>
                THEN results' = << >>
                ELSE /\ Ran # {}
                     /\ LET n == CHOOSE k \in Ran : \A j \in Ran : k <= j
                        IN  results' = [ i \in 1..n |-> Result(i) ]
         ELSE /\ \A i \in 1..Len(commands) : job[i].phase = "done"
              /\ results' = par_collect(finished)
    /\ pc' = "returned"
    /\ UNCHANGED << cli, sync, dry_run, commands, job, finished >>
    /\ UNCHANGED << arguments, exit_code, wvars >>

\* a variant of the exit code that takes 0 when the last command has none
exit_status_zero(rs) ==
    IF rs[Len(rs)].code = NoCode THEN 0 ELSE rs[Len(rs)].code

\* sprint.rs 120: results.last().unwrap().code.unwrap_or(1)
exit_status(rs) ==
    IF rs[Len(rs)].code = NoCode THEN 1 ELSE rs[Len(rs)].code

\* sprint.rs 119-120: main exits with the code of the last command
MainExit ==
    /\ pc = "returned"
    /\ cli
    /\ pc' = "exited"
    /\ exit_code' = exit_status(results)
    /\ UNCHANGED << arguments, wvars, rvars >>

\* sprint.rs 80-84: without arguments and without -w main reads commands
\* from its stdin; `commands` holds the lines that stdin delivers
Interactive ==
    /\ pc = "main"
    /\ cli
    /\ arguments = 0
    /\ watch = << >>
    /\ pc' = "interactive"
    /\ UNCHANGED << arguments, exit_code, wvars, rvars >>

\* the loop of sprint.rs 85-109 is at read_line: every command read so far
\* has been run by core and its code is among its accepted codes
AtPrompt ==
    /\ pc = "interactive"
    /\ \A i \in 1..Len(commands) :
          /\ job[i].phase \in { "todo", "done" }
          /\ job[i].phase = "done"
             => ~is_error(job[i].code, commands[i].codes, FALSE)

\* sprint.rs 86-95: read_line returns line i, which core runs
ReadLine(i) ==
    /\ AtPrompt
    /\ job[i].phase = "todo"
    /\ i > 1 => job[i - 1].phase = "done"
    /\ Spawn(i)
    /\ UNCHANGED << cli, sync, dry_run, commands, finished, results >>
    /\ UNCHANGED << arguments, pc, exit_code, wvars >>

\* sprint.rs 87-93 and 106-108: read_line fails (exit code 1), or stdin is
\* at its end: the loop breaks and main returns Ok (exit code 0)
ReadLineEnd ==
    /\ AtPrompt
    /\ \E r \in { "eof", "err" } :
          /\ r = "eof" => \A i \in 1..Len(commands) : job[i].phase = "done"
          /\ exit_code' = IF r = "eof" THEN 0 ELSE 1
    /\ pc' = "exited"
    /\ UNCHANGED << arguments, wvars, rvars >>

\* sprint.rs 97-103: the command that core ran has a code that is not
\* accepted, and main exits with it; or it has no code, and main exits
\* with 1
InteractiveExit ==
    /\ pc = "interactive"
    /\ \E i \in 1..Len(commands) :
          /\ job[i].phase = "done"
          /\ is_error(job[i].code, commands[i].codes, FALSE)
          /\ exit_code' = IF job[i].code = NoCode THEN 1 ELSE job[i].code
    /\ pc' = "exited"
    /\ UNCHANGED << arguments, wvars, rvars >>

NextRun ==
    \/ MainRun
    \/ Interactive
    \/ \E i \in 1..Len(commands) : ReadLine(i)
    \/ ReadLineEnd
    \/ InteractiveExit
    \/ \E i \in 1..Len(commands) : Start(i)
    \/ \E i \in 1..Len(commands) : WriteStdin(i)
    \/ \E i \in 1..Len(commands) : ChildRead(i)
    \/ \E i \in 1..Len(commands) : CallerStdinEnd(i)
    \/ \E i \in 1..Len(commands) : ChildWrite(i)
    \/ \E i \in 1..Len(commands) : ChildWriteErr(i)
    \/ \E i \in 1..Len(commands) : ChildEnd(i)
    \/ \E i \in 1..Len(commands) : Wait(i)
    \/ \E i \in 1..Len(commands) : Read(i)
    \/ \E i \in 1..Len(commands) : ReadErr(i)
    \/ Return
    \/ MainExit

SpecRun == InitRun /\ [][NextRun]_<< vars, rvars >>

\* ------------------------------------------- one command, every Pipe value
\* the values of a Pipe field: the four variants, String without and with
\* a string (as long as the pipe is large, and longer)
PipeValues ==
    { PipeNull, PipeStdout, PipeStderr, PipeString(NoString),
      PipeString(PipeCap), PipeString(PipeCap + 1) }

\* a caller of the library runs one command, any program with any Pipe
\* value on each stream (lib.rs 576-584)
CoreCommands ==
    { [ command |-> prog, stdin |-> a, codes |-> { 0 }, stdout |-> b,
        stderr |-> e, code |-> NoCode ] :
        prog \in DOMAIN Programs, a \in PipeValues, b \in PipeValues,
        e \in PipeValues }

InitCore ==
    /\ cli = FALSE
    /\ sync = TRUE
    /\ dry_run = FALSE
    /\ commands \in { << c >> : c \in CoreCommands }
    /\ job = [ i \in 1..Len(commands) |-> NoJob ]
    /\ finished = << >>
    /\ results = << >>
    /\ arguments = 0
    /\ pc = "run"
    /\ exit_code = NoCode
    /\ watch = << >>
    /\ debounce = 0
    /\ registered = 0
    /\ dirs = << >>
    /\ hashes = << >>
    /\ ts = 0
    /\ process = "none"
    /\ spawned = 0
    /\ leaked = 0
    /\ unreaped = 0
    /\ cb = "none"
    /\ clock = 0
    /\ fs = [ f \in FilePaths |-> "x" ]
    /\ last = NoEvent
    /\ last_accept = NoTime

NextCore ==
    \/ \E i \in 1..Len(commands) : Start(i)
    \/ \E i \in 1..Len(commands) : WriteStdin(i)
    \/ \E i \in 1..Len(commands) : ChildRead(i)
    \/ \E i \in 1..Len(commands) : CallerStdinEnd(i)
    \/ \E i \in 1..Len(commands) : ChildWrite(i)
    \/ \E i \in 1..Len(commands) : ChildWriteErr(i)
    \/ \E i \in 1..Len(commands) : ChildEnd(i)
    \/ \E i \in 1..Len(commands) : Wait(i)
    \/ \E i \in 1..Len(commands) : Read(i)
    \/ \E i \in 1..Len(commands) : ReadErr(i)
    \/ Return

SpecCore == InitCore /\ [][NextCore]_<< vars, rvars >>

\* ------------------------------------------------------------ properties
Supervisor == arguments = 1
Reporter == arguments = 0

\* the latest callback invocation passed the debounce check
Accepted == last.outcome \in { "restart", "kill failed", "report" }

\* number of children of the session that are running
Running == (IF process = "running" THEN 1 ELSE 0) + leaked

\* the cwd-relative path x names a directory given with -w
IsWatchRoot(x) ==
    \E i \in 1..Len(watch) : is_dir(watch[i]) /\ Resolve(watch[i]) = Pwd \o x

\* C1: in single-command watch mode at most one child of the session is
\* running in every reachable state, whatever the liveness poll returns.
C1_AtMostOneChild == Supervisor => Running <= 1

\* C2: in supervisor mode a write-close event on a file of the baseline
\* whose content no longer has the stored fingerprint, arriving more than
\* the debounce threshold after the last action, restarts the command
\* (kill if alive, "Modified" line, run again).
C2_ModifiedRestarts ==
    ( /\ Supervisor
      /\ last.kind = "write"
      /\ last.modified
      /\ last.now - last.ts0 > debounce )
    => /\ last.outcome \in { "restart", "kill failed" }
       /\ last.trigger \in DOMAIN hashes

\* C3: a path that is itself a watch-root directory, or a key of the
\* fingerprints mapping, or matched by the ignore filter never triggers a
\* restart, for every event kind.
C3_FilteredNeverTriggers ==
    ( Supervisor /\ Accepted )
    => /\ ~IsWatchRoot(last.trigger)
       /\ last.trigger \notin DOMAIN hashes
       /\ ~IgnoreCheck(last.trigger)

\* C4: two qualifying events e1 < e2 with e2 - e1 <= debounce never both
\* trigger: an event accepted after an earlier accepted one is more than the
\* threshold later than it.
C4_BurstOneRestart ==
    ( Accepted /\ last.prev # NoTime /\ last.prev < last.now )
    => last.now - last.prev > debounce

C4_Witness ==
    /\ last.outcome = "none"
    /\ last.gated # {}
    /\ last.prev # NoTime
    /\ last.prev < last.now
    /\ last.now - last.prev <= debounce

\* C5: in supervisor mode a qualifying event that arrives more than the
\* threshold after the previous accepted event is accepted, however long
\* the respawn triggered by that event took.
C5_LaterEventAccepted ==
    ( /\ Supervisor
      /\ last.gated # {}
      /\ last.prev # NoTime
      /\ last.now - last.prev > debounce )
    => Accepted

\* C6: the check accepts iff now - last_action > debounce, and after an
\* accepted event last_action equals the `now` of that event, in
\* supervisor and in reporter mode.
C6_AcceptSetsLastActionToNow ==
    /\ last.gated # {} => (Accepted <=> last.now - last.ts0 > debounce)
    /\ last.outcome \in { "restart", "report" } => ts = last.now

\* C7: an event the check rejects leaves last_action and the child as they
\* are, and is not queued: the child is respawned only inside the callback
\* invocation of an event that is itself accepted at that time.
C7_RejectFrame ==
    [][ /\ ( last' # NoEvent /\ last'.outcome = "none" )
           => ( /\ ts' = ts
                /\ process' = process
                /\ spawned' = spawned
                /\ leaked' = leaked
                /\ unreaped' = unreaped
                /\ last_accept' = last_accept )
        /\ ( spawned' # spawned /\ spawned > 0 )
           => ( /\ last'.outcome = "restart"
                /\ last'.now = clock
                /\ clock - ts > debounce ) ]_vars

C7_Witness ==
    /\ Supervisor
    /\ last.outcome = "none"
    /\ last.gated # {}
    /\ last.now - last.ts0 <= debounce
    /\ process = "running"

\* C8: in watch mode with one command and a watch path that does not
\* exist, startup fails before any child is spawned and before any watch is
\* registered.
C8_MissingPathFailsFirst ==
    ( Supervisor /\ \E i \in 1..Len(watch) : ~Exists(watch[i]) )
    => ( spawned = 0 /\ registered = 0 )

\* C9: with more than one command and a non-empty watch list the session
\* ends at startup with exit code 1; no child is spawned, no notifier is
\* created and no watch is registered.
C9_MultiCommandRejected ==
    ( arguments > 1 /\ Len(watch) > 0 )
    => /\ spawned = 0
       /\ registered = 0
       /\ cb = "none"
       /\ pc \in { "main", "exited" }
       /\ pc = "exited" => exit_code = 1

C9_Witness ==
    /\ arguments > 1
    /\ Len(watch) > 0
    /\ pc = "exited"
    /\ exit_code = 1

\* C10: an event on ignored paths never reaches the debounce check, for
\* every event kind: no ignored path is tested or triggers, and an event
\* whose paths are all ignored does nothing and leaves last_action alone.
C10_IgnoredNeverGated ==
    /\ \A x \in last.gated \cup { last.trigger } : ~IgnoreCheck(x)
    /\ ( last # NoEvent /\ last.ignored )
       => ( last.outcome = "none" /\ last.gated = {} /\ ts = last.ts0 )

C10_Witness ==
    /\ last.ignored
    /\ last.kind \in { "create", "remove", "write" }
    /\ last.now - last.ts0 > debounce

\* C11: a write-close event on files of the baseline whose fingerprints
\* all equal the stored ones, delivered at any time and any number of
\* times, triggers no restart and leaves fingerprints, last_action and
\* the current child as they were.
C11_UnchangedWriteIdempotent ==
    [][ ( /\ last' # NoEvent
          /\ last'.kind = "write"
          /\ last'.tracked
          /\ ~last'.modified )
        => ( /\ last'.outcome \in { "none", "panic" }
             /\ hashes' = hashes
             /\ ts' = ts
             /\ process' = process
             /\ spawned' = spawned
             /\ leaked' = leaked
             /\ unreaped' = unreaped ) ]_vars

C11_Witness ==
    /\ Supervisor
    /\ last.kind = "write"
    /\ last.tracked
    /\ ~last.modified
    /\ last.now - last.ts0 > debounce
    /\ last.outcome = "none"
    /\ process = "running"

\* the status with which the program of command i ends
StatusOf(i) == Programs[commands[i].command].status

\* results[i] is commands[i] with the code (and captured output) filled in
SameCommand(i) ==
    /\ results[i].command = commands[i].command
    /\ results[i].codes = commands[i].codes
    /\ results[i].stdin = commands[i].stdin
    /\ results[i].stderr.pipe = commands[i].stderr.pipe
    /\ results[i].stdout.pipe = commands[i].stdout.pipe
    /\ results[i].code = job[i].code
    /\ job[i].code \in { StatusOf(i), NoCode }

\* Shell::run is what runs the commands: a caller of the library, or main
\* with arguments
RunCalled == ~cli \/ arguments > 0

\* C12: a sequential run that is not a dry run returns the results of a
\* prefix of the commands, in order (empty only for an empty list): every
\* result but the last has an exit code among its accepted codes (zero or
\* not), the run stops right after the first command whose exit code is
\* absent or not accepted, and no later command is executed.
C12_SequentialPrefix ==
    ( RunCalled /\ sync /\ ~dry_run /\ pc \in { "returned", "exited" } )
    => LET n == Len(results)
       IN  /\ n \in 0..Len(commands)
           /\ n = 0 => commands = << >>
           /\ \A i \in 1..n : SameCommand(i) /\ job[i].child # "none"
           /\ \A i \in 1..(n - 1) : results[i].code \in commands[i].codes
           /\ n < Len(commands) => results[n].code \notin commands[n].codes
           /\ \A j \in (n + 1)..Len(commands) : job[j].child = "none"

C12_Witness ==
    /\ sync
    /\ ~dry_run
    /\ pc = "returned"
    /\ Len(commands) = 2
    /\ Len(results) = 1
    /\ results[1].code = 2
    /\ job[2].phase = "todo"

\* C13: in a sequential run a command is spawned only after the children
\* of all earlier commands have exited.
C13_SequentialNoOverlap ==
    sync => \A i, j \in 1..Len(commands) :
                ( i < j /\ job[j].child # "none" ) => job[i].child = "exited"

C13_Witness ==
    /\ sync
    /\ Len(commands) = 2
    /\ job[1].child = "exited"
    /\ job[2].child = "running"

\* C14 as stated: an unordered run executes every command and returns one
\* result per command, the result of command i at position i, whatever the
\* order of completion and whatever the exit codes.
C14_Original ==
    ( ~sync /\ pc = "returned" )
    => /\ Len(results) = Len(commands)
       /\ \A i \in 1..Len(commands) :
             /\ SameCommand(i)
             /\ job[i].phase = "done"
             /\ job[i].child # "none"

\* C14 amended: an unordered run returns one result per command, the
\* result of command i at position i, whatever the order of completion and
\* whatever the exit codes; every command was executed unless the shell is
\* in dry-run mode, where no command is executed and each result is the
\* command as given.
C14_UnorderedAllInOrder ==
    ( ~sync /\ pc = "returned" )
    => /\ Len(results) = Len(commands)
       /\ \A i \in 1..Len(commands) :
             /\ SameCommand(i)
             /\ job[i].phase = "done"
             /\ job[i].child # "none" <=> ~dry_run
             /\ dry_run => results[i] = commands[i]

C14_Witness ==
    /\ ~sync
    /\ ~dry_run
    /\ pc = "returned"
    /\ finished = << 2, 1 >>
    /\ commands[1] # commands[2]
    /\ results[1].code \notin commands[1].codes

\* C15: without -w and with at least one command the process exits with
\* the exit code of the last command that was executed, or with 1 when
\* that command has no exit code.
C15_ExitCodeOfLastCommand ==
    ( cli /\ arguments > 0 /\ pc = "exited" )
    => LET n == Len(results)
       IN  /\ n \in 1..Len(commands)
           /\ job[n].child # "none"
           /\ \A j \in (n + 1)..Len(commands) : job[j].child = "none"
           /\ job[n].code \in { StatusOf(n), NoCode }
           /\ exit_code = IF job[n].code = NoCode THEN 1 ELSE job[n].code

C15_Witness ==
    /\ cli
    /\ arguments > 0
    /\ pc = "exited"
    /\ Len(commands) = 2
    /\ Len(results) = 2
    /\ job[2].code = NoCode
    /\ exit_code = 1

\* C16: the write of a stdin payload never stays blocked and never fails:
\* whenever the parent is in the write with bytes left, either the pipe
\* has room or the child is running and reads its stdin.
C16_StdinWriteNeverBlocks ==
    \A i \in 1..Len(commands) :
        /\ job[i].phase # "panicked"
        /\ ( job[i].phase = "stdin" /\ job[i].left > 0 )
           => \/ job[i].inbuf < PipeCap
              \/ job[i].child = "running" /\ Programs[commands[i].command].reads

\* C17: after a write-close event on a file of the baseline whose content
\* changed has been processed, the stored fingerprint of that file is the
\* fingerprint of the content now on disk.
C17_FingerprintFollowsContent ==
    ( /\ last # NoEvent
      /\ last.kind = "write"
      /\ last.modified
      /\ last.outcome # "panic" )
    => ~last.stale

\* C18: with zero commands watch mode only reports: no child is ever
\* spawned, polled or killed, and a line is printed for an event exactly
\* when one of its paths reaches the debounce check and the check accepts.
C18_ReporterOnlyReports ==
    Reporter
    => /\ spawned = 0
       /\ process = "none"
       /\ leaked = 0
       /\ unreaped = 0
       /\ last.outcome \notin { "restart", "kill failed" }
       /\ last.polled = "none"
       /\ ~last.killed
       /\ last # NoEvent
          => ( last.outcome = "report"
               <=> ( last.gated # {} /\ last.now - last.ts0 > debounce ) )

C18_Witness ==
    /\ Reporter
    /\ last.outcome = "report"
    /\ last.kind \in { "create", "remove" }
    /\ last.now - last.ts0 > debounce

\* C19: on an accepted restart trigger the supervisor polls the child and
\* kills it exactly when the poll reports it alive; when the kill fails no
\* new child is spawned, the old child stays, the callback is dead, and
\* from then on no event is serviced and nothing is spawned.
C19_KillIffAliveFailureFatal ==
    [][ Supervisor
        => /\ last'.outcome = "restart"
              => /\ last'.killed <=> last'.polled = "Ok(None)"
                 /\ last'.polled \in { "Err", try_wait(process, "ok") }
                 /\ spawned' = spawned + 1
           /\ last'.outcome = "kill failed"
              => /\ last'.polled = "Ok(None)"
                 /\ process = "running"
                 /\ process' = process
                 /\ spawned' = spawned
                 /\ cb' = "panicked"
           /\ cb = "panicked"
              => /\ cb' = "panicked"
                 /\ last' = NoEvent
                 /\ spawned' = spawned
                 /\ ts' = ts
                 /\ hashes' = hashes ]_vars

C19_Witness ==
    /\ Supervisor
    /\ last.outcome = "kill failed"
    /\ last.polled = "Ok(None)"
    /\ cb = "panicked"
    /\ process = "running"

\* C20: once the notifier exists, the debounce timestamp, the fingerprints
\* and the child handle change only in a callback invocation, an
\* invocation starts only when no other one is in progress, and the main
\* thread, once the watches are registered, only sleeps.
C20_OnlyCallbackTouchesState ==
    [][ /\ ( cb # "none" /\ last' = NoEvent )
           => /\ ts' = ts
              /\ hashes' = hashes
              /\ dirs' = dirs
              /\ spawned' = spawned
              /\ leaked' <= leaked
              /\ unreaped' = unreaped
              /\ last_accept' = last_accept
        /\ last' # NoEvent => ( cb = "ready" /\ pc \in { "register", "idle" } )
        /\ pc = "idle"
           => /\ pc' \in { "idle", "exited" }
              /\ registered' = registered
              /\ pc' = "exited" => ( cb = "ready" /\ exit_code' = 1 ) ]_vars

C20_Witness ==
    /\ Supervisor
    /\ pc = "idle"
    /\ last.outcome = "restart"
    /\ spawned = 2
    /\ clock = MaxTime

\* C21: when the notifier delivers an error the process exits with a
\* non-zero code in that very step, in both watch modes, and once the
\* process has exited no event is processed, nothing is spawned or
\* reported and the callback state stays as it is.
C21_NotifierErrorTerminates ==
    [][ /\ last'.kind = "error"
           => /\ pc' = "exited"
              /\ exit_code' \notin { 0, NoCode }
              /\ spawned' = spawned
              /\ ts' = ts
              /\ hashes' = hashes
        /\ pc = "exited"
           => /\ pc' = "exited"
              /\ exit_code' = exit_code
              /\ last' \in { last, NoEvent }
              /\ spawned' = spawned
              /\ ts' = ts
              /\ hashes' = hashes ]_vars

C21_Witness ==
    /\ Supervisor
    /\ last.kind = "error"
    /\ pc = "exited"
    /\ exit_code = 1
    /\ registered = Len(watch)
    /\ process = "running"

\* C22: in supervisor mode the command is launched before the baseline
\* scan, before the notifier exists and before any watch is registered,
\* and it has been launched exactly once as long as no watch is
\* registered, that is before any event can be observed.
C22_InitialSpawnFirst ==
    Supervisor
    => /\ pc = "baseline" => ( spawned = 1 /\ cb = "none" /\ registered = 0
                                /\ dirs = << >> /\ hashes = << >> )
       /\ ( cb # "none" \/ registered > 0 ) => spawned >= 1
       /\ ( pc # "main" /\ registered = 0 ) => spawned = 1
       /\ last.kind \notin { "none", "error" }
          => ( spawned >= 1 /\ registered >= 1 )

C22_Witness ==
    /\ Supervisor
    /\ pc = "register"
    /\ cb = "ready"
    /\ registered = 0
    /\ spawned = 1
    /\ process = "running"

\* C25: in supervisor mode every spawn after the initial launch has a
\* start timestamp more than debounce later than that of the spawn before
\* it; so no event within debounce of the initial launch restarts.
C25_SpawnsDebounceApart ==
    [][ ( Supervisor /\ spawned >= 1 /\ spawned' # spawned )
        => /\ spawned' = spawned + 1
           /\ ts' - ts > debounce
           /\ last'.outcome = "restart"
           /\ last'.now - ts > debounce ]_vars

C25_Witness ==
    /\ Supervisor
    /\ debounce > 0
    /\ spawned = 2
    /\ last.outcome = "restart"
    /\ ts - last.ts0 > debounce

\* C26: in one callback invocation the restart of the supervisor, or the
\* print of the reporter, runs at most once, however many paths of the
\* event pass the filter, in the create/remove and in the write-close
\* branch; at most one child is spawned.
C26_OneRestartPerEvent ==
    [][ last' # NoEvent
        => /\ last'.fired <= 1
           /\ spawned' <= spawned + 1
           /\ last'.fired = 0 => ( spawned' = spawned /\ ts' = ts ) ]_vars

C26_Witness ==
    /\ Supervisor
    /\ last.kind \in { "create", "remove" }
    /\ last.several
    /\ last.outcome = "restart"
    /\ last.fired = 1

\* C27: once the notifier exists no step changes the set of directories
\* or the set of keys of the fingerprints; a write-close event none of
\* whose paths is a file of the baseline restarts nothing.
C27_TrackedSetFixed ==
    [][ cb # "none"
        => /\ dirs' = dirs
           /\ DOMAIN hashes' = DOMAIN hashes
           /\ ( last'.kind = "write" /\ ~last'.tracked )
              => /\ last'.outcome \in { "none", "panic" }
                 /\ spawned' = spawned
                 /\ ts' = ts ]_vars

C27_Witness ==
    /\ Supervisor
    /\ last.kind = "write"
    /\ ~last.tracked
    /\ ~last.ignored
    /\ last.prev # NoTime
    /\ last.now - last.ts0 > debounce
    /\ last.outcome = "none"
    /\ DOMAIN hashes = DOMAIN watchedHashes(watch, fs)

\* the Pipe value of a stream of command i
PipeOf(i, x) ==
    IF x = "stdin" THEN commands[i].stdin
    ELSE IF x = "stdout" THEN commands[i].stdout
    ELSE commands[i].stderr

\* C23: for every combination of Pipe values, a stream of the spawned
\* child is a pipe only if its Pipe value is the String variant; with
\* every other variant, Null included, it inherits the parent's stream.
C23_Original ==
    \A i \in 1..Len(commands) :
        job[i].child # "none"
        => \A x \in job[i].piped : PipeOf(i, x).pipe = "String"

\* C23 (amended): stdin is a pipe exactly with the String variant; stdout
\* and stderr are pipes exactly with the String variant or Null; every
\* other stream inherits the parent's stream.
C23_Amended ==
    \A i \in 1..Len(commands) :
        job[i].child # "none"
        => /\ "stdin" \in job[i].piped <=> commands[i].stdin.pipe = "String"
           /\ \A x \in { "stdout", "stderr" } :
                 x \in job[i].piped
                 <=> PipeOf(i, x).pipe \in { "String", "Null" }

C23_Witness ==
    /\ Len(commands) = 1
    /\ job[1].child = "running"
    /\ commands[1].stdin = PipeNull
    /\ commands[1].stdout = PipeNull
    /\ commands[1].stderr = PipeStdout
    /\ job[1].piped = { "stdout" }

\* C24: core on a command with captured or Null stdout or stderr never
\* waits for the exit of a child that is blocked on its output, whatever
\* the length of the output, and when core is done the captured output is
\* all the child wrote and the code is the child's.
C24_CoreReturnsCompleteOutput ==
    \A i \in 1..Len(commands) :
        /\ ( /\ job[i].phase = "wait"
              /\ job[i].child = "running"
              /\ "stdout" \in job[i].piped
              /\ job[i].toout > 0 )
           => job[i].outbuf < PipeCap
        /\ ( /\ job[i].phase = "wait"
              /\ job[i].child = "running"
              /\ "stderr" \in job[i].piped
              /\ job[i].toerr > 0 )
           => job[i].errbuf < PipeCap
        /\ ( job[i].phase = "done" /\ commands[i].stdout.pipe = "String" )
           => /\ job[i].got = Programs[commands[i].command].out
              /\ job[i].code \in { StatusOf(i), NoCode }
        /\ ( job[i].phase = "done" /\ commands[i].stderr.pipe = "String" )
           => /\ job[i].goterr = Programs[commands[i].command].err
              /\ job[i].code \in { StatusOf(i), NoCode }

====
